---- MODULE Spec2Model ----
(***************************************************************************)
(* A model of the JFTT compiler test harness (tester/tester.py with the    *)
(* metadata registry tester/tests.py).                                     *)
(*                                                                         *)
(* Text and byte strings are sequences of one-character strings, so that   *)
(* str.split, str.strip, the substring test and bytes.decode are computed  *)
(* character by character.  The external compiler and interpreter are      *)
(* black boxes: each invocation draws one behaviour from a small set.      *)
(***************************************************************************)
EXTENDS Integers, Sequences, FiniteSets, TLC

VARIABLES
    walk,       \* what os.walk(INPUT_DIR) yields: a sequence of [dir, fnames]
    tests_dct,  \* tests.main, the metadata registry (a dict of dicts)
    pc,         \* position of the main flow of control
    di,         \* index into walk of the directory test_all is at
    fi,         \* index into fnames of the file test_dir is at
    si,         \* index of the scenario test_imp is at
    subj,       \* the current TestSubject
    compiled,   \* the local `compiled` of TestSubject.test (a temp file)
    fs,         \* the temporary files on disk: file |-> bytes it holds
    ntmp,       \* number of mkstemp calls made so far
    summary,    \* the Summary instance
    last_ok,    \* Tester.last_ok
    console,    \* what has been printed, in order
    invoked,    \* the subprocess invocations made, in order
    raw,        \* argument of a stand-alone parse_output call
    parsed      \* its result

vars == <<walk, tests_dct, pc, di, fi, si, subj, compiled, fs, ntmp,
          summary, last_ok, console, invoked, raw, parsed>>

(***************************************************************************)
(* Bounds of the model.                                                    *)
(***************************************************************************)
\* longest raw text handed to a stand-alone parse_output call
MaxLen == 5
\* most files a corpus holds
MaxFiles == 2
\* largest counter value of a Summary rendered on its own
MaxCount == 2

(***************************************************************************)
(* Strings.                                                                *)
(***************************************************************************)
NL == "\n"
GT == ">"
\* a byte that is no valid UTF-8
BadByte == "xFF"
\* the characters str.strip() removes
Whitespace == {" ", "\t", "\n", "\r"}

Range(s) == {s[i] : i \in DOMAIN s}

\* index of the first occurrence of character c in s, 0 when there is none
IndexOf(s, c) ==
    IF \E i \in DOMAIN s : s[i] = c
    THEN CHOOSE i \in DOMAIN s : s[i] = c /\ \A j \in 1..(i - 1) : s[j] # c
    ELSE 0

RECURSIVE Split(_, _)
\* str.split(sep) for a one-character separator
Split(s, sep) ==
    LET i == IndexOf(s, sep)
    IN  IF i = 0 THEN <<s>>
        ELSE <<SubSeq(s, 1, i - 1)>> \o Split(SubSeq(s, i + 1, Len(s)), sep)

\* str.split(sep, 1): at most one split
SplitOnce(s, sep) ==
    LET i == IndexOf(s, sep)
    IN  IF i = 0 THEN <<s>>
        ELSE <<SubSeq(s, 1, i - 1), SubSeq(s, i + 1, Len(s))>>

RECURSIVE LStrip(_)
LStrip(s) == IF s # <<>> /\ Head(s) \in Whitespace THEN LStrip(Tail(s)) ELSE s

RECURSIVE RStrip(_)
RStrip(s) ==
    IF s # <<>> /\ s[Len(s)] \in Whitespace
    THEN RStrip(SubSeq(s, 1, Len(s) - 1)) ELSE s

\* str.strip()
Strip(s) == RStrip(LStrip(s))

RECURSIVE Join(_, _)
\* sep.join(parts)
Join(parts, sep) ==
    IF parts = <<>> THEN <<>>
    ELSE IF Len(parts) = 1 THEN parts[1]
    ELSE parts[1] \o <<sep>> \o Join(Tail(parts), sep)

\* `sub in s` for strings
Contains(s, sub) ==
    \E i \in 1..(Len(s) - Len(sub) + 1) : SubSeq(s, i, i + Len(sub) - 1) = sub

\* bytes.decode('utf-8') raises UnicodeDecodeError on these
Decodable(b) == BadByte \notin Range(b)
\* bytes.decode('utf-8') of decodable bytes (the model's texts are ASCII)
Decode(b) == [i \in DOMAIN b |-> b[i]]

(***************************************************************************)
(* parse_output                                                            *)
(***************************************************************************)
\* a plausible slip: split at the first '>' only and keep the whole rest
parse_output_keeps_rest(raw_output) ==
    LET lines == Split(raw_output, NL)
        kept == SelectSeq(lines, LAMBDA line : Len(SplitOnce(line, GT)) > 1)
    IN  [i \in DOMAIN kept |-> Strip(SplitOnce(kept[i], GT)[2])]

\* a plausible slip: the filter is missing and every line yields a token,
\* its last '>'-separated field
parse_output_keeps_every_line(raw_output) ==
    LET lines == Split(raw_output, NL)
    IN  [i \in DOMAIN lines |->
            Strip(Split(lines[i], GT)[Len(Split(lines[i], GT))])]

parse_output(raw_output) ==
    LET lines == Split(raw_output, NL)
        kept == SelectSeq(lines, LAMBDA line : Len(Split(line, GT)) > 1)
    IN  [i \in DOMAIN kept |-> Strip(Split(kept[i], GT)[2])]

\* load_input: the scenario's input tokens, newline-joined, as bytes
load_input(input_) == Join(input_, NL)

(***************************************************************************)
(* Python values.                                                          *)
(***************************************************************************)
\* dict[key] = value: the key is added when the dict does not hold it
DictSet(d, key, value) ==
    [k \in DOMAIN d \cup {key} |-> IF k = key THEN value ELSE d[k]]

\* What meta['real_output'] may hold: a str, an exception object or a list
\* of tokens.  Every value carries its type, and the fields of the other
\* types empty.
PyStr(text) == [type |-> "str", text |-> text, list |-> <<>>]
Exc(name) == [type |-> "exception", text |-> name, list |-> <<>>]
PyList(tokens) == [type |-> "list", text |-> "", list |-> tokens]

(***************************************************************************)
(* The metadata registry, tests.main.  Keys are paths relative to the      *)
(* corpus root, written as sequences of path components.  The first two    *)
(* entries are those of tests.py; the third is an entry whose input and    *)
(* output lists differ in length.                                          *)
(***************************************************************************)
tests_main ==
    (<<"basic", "read_put.imp">> :>
        [title  |-> "Tests assignment, read and put",
         input  |-> << << <<"1", "0">> >> >>,
         output |-> << << <<"1", "0">> >> >>])
    @@
    (<<"basic", "sub2.imp">> :>
        [title  |-> "Broad test for substraction",
         input  |-> << << <<"5">>, <<"0">> >>,
                       << <<"7">>, <<"1", "0", "1">> >> >>,
         output |-> << << <<"5">>, <<"0">>, <<"4", "9", "5">>,
                          <<"0">>, <<"0">>, <<"2">> >>,
                       << <<"0">>, <<"9", "4">>, <<"3", "9", "2">>,
                          <<"0">>, <<"0">>, <<"2">> >> >>])
    @@
    (<<"bad", "unbalanced.imp">> :>
        [title  |-> "Two inputs, one output",
         input  |-> << <<>>, <<>> >>,
         output |-> << << <<"1">> >> >>])

\* INPUT_DIR = "./in"
INPUT_DIR == <<".", "in">>

\* the files a corpus directory may hold
PoolFiles(d) ==
    IF d = "basic" THEN {"read_put.imp", "sub2.imp", "nometa.imp"}
    ELSE {"unbalanced.imp"}

\* the directory listings of d: its files in any order, none twice
Listings(d) ==
    {l \in UNION {[1..n -> PoolFiles(d)] : n \in 0..MaxFiles} :
        \A i, j \in DOMAIN l : i # j => l[i] # l[j]}

\* what os.walk may yield: the root (which holds directories only), then
\* the two test groups in either order
Walks ==
    {<<[dir |-> INPUT_DIR, fnames |-> <<>>],
       [dir |-> Append(INPUT_DIR, o[1]), fnames |-> l[o[1]]],
       [dir |-> Append(INPUT_DIR, o[2]), fnames |-> l[o[2]]]>> :
        o \in {<<"basic", "bad">>, <<"bad", "basic">>},
        l \in {m \in [{"basic", "bad"} -> Listings("basic") \cup Listings("bad")] :
                 /\ m["basic"] \in Listings("basic")
                 /\ m["bad"] \in Listings("bad")
                 /\ Len(m["basic"]) + Len(m["bad"]) \in 1..MaxFiles}}

\* os.path.join(dir_, fname)
path_join(dir_, fname) == Append(dir_, fname)

\* input_fpath.split('/', 2)[2]
meta_key(input_fpath) == SubSeq(input_fpath, 3, Len(input_fpath))

(***************************************************************************)
(* The external toolchain.                                                 *)
(***************************************************************************)
SyntaxErrorMarker == <<"S","y","n","t","a","x"," ","e","r","r","o","r">>
\* what a compiler prints
CodeBytes == <<"G","E","T",NL,"P","U","T",NL,"H","A","L","T">>
SyntaxErrorBytes == <<"1",":"," ">> \o SyntaxErrorMarker
UndecodableBytes == <<"G","E","T",BadByte>>

\* one run of the compiler: whether the process could be started, its
\* exit status and what it wrote to standard output
CompilerRuns ==
    {[started |-> FALSE, exit |-> 0, stdout |-> <<>>],
     [started |-> TRUE,  exit |-> 1, stdout |-> SyntaxErrorBytes],
     [started |-> TRUE,  exit |-> 0, stdout |-> SyntaxErrorBytes],
     [started |-> TRUE,  exit |-> 0, stdout |-> UndecodableBytes],
     [started |-> TRUE,  exit |-> 0, stdout |-> CodeBytes]}

\* the interpreter's output that prints each token of `tokens` as "> token"
Echo(tokens) == Join([i \in DOMAIN tokens |-> <<GT, " ">> \o tokens[i]], NL)

TwoDelimiters == <<"x"," ",GT," ","1"," ",GT," ","2">>

\* one run of the interpreter on a scenario that expects `expected`
InterpreterRuns(expected) ==
    {[started |-> FALSE, exit |-> 0, stdout |-> <<>>],
     [started |-> TRUE,  exit |-> 1, stdout |-> Echo(expected)],
     [started |-> TRUE,  exit |-> 0, stdout |-> <<"?", " ", BadByte>>],
     [started |-> TRUE,  exit |-> 0, stdout |-> TwoDelimiters],
     [started |-> TRUE,  exit |-> 0, stdout |-> Echo(expected)]}

\* a plausible slip: the exit status is not looked at (subprocess.run
\* without check=True)
check_output_ignores_exit(run) ==
    IF ~run.started THEN "OSError" ELSE "none"

\* subprocess.check_output: the exception it raises, "none" when it returns
check_output(run) ==
    IF ~run.started THEN "OSError"
    ELSE IF run.exit # 0 THEN "CalledProcessError"
    ELSE "none"

(***************************************************************************)
(* Summary                                                                 *)
(***************************************************************************)
\* Summary.__init__
Summary ==
    [failed |-> 0, passed |-> 0, compilation_failed |-> 0, no_meta |-> 0,
     exceptions |-> 0]

\* summary.<counter> += 1
Incr(s, counter) == [s EXCEPT ![counter] = @ + 1]

\* a plausible slip: no_meta is listed like the other counters
SummaryStr_lists_no_meta(s) ==
    (IF s.passed > 0 THEN <<[label |-> "Passed: ", n |-> s.passed]>> ELSE <<>>)
    \o (IF s.failed > 0 THEN <<[label |-> "Failed: ", n |-> s.failed]>> ELSE <<>>)
    \o (IF s.compilation_failed > 0
        THEN <<[label |-> "Compilation failed: ", n |-> s.compilation_failed]>>
        ELSE <<>>)
    \o (IF s.no_meta > 0
        THEN <<[label |-> "No meta: ", n |-> s.no_meta]>> ELSE <<>>)
    \o (IF s.exceptions > 0
        THEN <<[label |-> "Exceptions thrown: ", n |-> s.exceptions]>>
        ELSE <<>>)

\* Summary.__str__: the lines after the "Summary:" heading
SummaryStr(s) ==
    (IF s.passed > 0 THEN <<[label |-> "Passed: ", n |-> s.passed]>> ELSE <<>>)
    \o (IF s.failed > 0 THEN <<[label |-> "Failed: ", n |-> s.failed]>> ELSE <<>>)
    \o (IF s.compilation_failed > 0
        THEN <<[label |-> "Compilation failed: ", n |-> s.compilation_failed]>>
        ELSE <<>>)
    \o (IF s.exceptions > 0
        THEN <<[label |-> "Exceptions thrown: ", n |-> s.exceptions]>>
        ELSE <<>>)

(***************************************************************************)
(* Compilation                                                             *)
(***************************************************************************)
\* a plausible slip: the artifact is written before the marker is looked for
compile_to_file_writes_first(run) ==
    IF check_output(run) # "none"
    THEN [raised |-> check_output(run), wrote |-> FALSE]
    ELSE IF ~Decodable(run.stdout)
    THEN [raised |-> "UnicodeDecodeError", wrote |-> TRUE]
    ELSE IF Contains(Decode(run.stdout), SyntaxErrorMarker)
    THEN [raised |-> "CompilationFailed", wrote |-> TRUE]
    ELSE [raised |-> "none", wrote |-> TRUE]

\* compile_to_file: the exception it raises ("none" when it returns) and
\* whether it wrote the compiler's output to the artifact file
compile_to_file(run) ==
    IF check_output(run) # "none"
    THEN [raised |-> check_output(run), wrote |-> FALSE]
    ELSE IF ~Decodable(run.stdout)
    THEN [raised |-> "UnicodeDecodeError", wrote |-> FALSE]
    ELSE IF Contains(Decode(run.stdout), SyntaxErrorMarker)
    THEN [raised |-> "CompilationFailed", wrote |-> FALSE]
    ELSE [raised |-> "none", wrote |-> TRUE]

\* a plausible slip: every exception of compile_to_file is reported as
\* CompilationFailed
_compile_all_failed(run) ==
    LET r == compile_to_file(run)
    IN  IF r.raised = "none"
        THEN [raised |-> "none", wrote |-> r.wrote]
        ELSE [raised |-> "CompilationFailed", wrote |-> r.wrote,
              real_output |-> PyStr("Compilation failed")]

\* a plausible slip: the exceptions of compile_to_file are swallowed
_compile_swallows(run) ==
    [raised |-> "none", wrote |-> compile_to_file(run).wrote]

\* TestSubject._compile: the exception it raises, what it stores in
\* meta['real_output'] before raising, and whether the artifact was written
_compile(run) ==
    LET r == compile_to_file(run)
    IN  IF r.raised = "none"
        THEN [raised |-> "none", wrote |-> r.wrote]
        ELSE IF r.raised = "CompilationFailed"
        THEN [raised |-> "CompilationFailed", wrote |-> r.wrote,
              real_output |-> PyStr("Compilation failed")]
        ELSE [raised |-> "CompilationException", wrote |-> r.wrote,
              real_output |-> Exc(r.raised)]

(***************************************************************************)
(* Reporting                                                               *)
(***************************************************************************)
\* the dict `errors`
errors ==
    [FAIL |-> "Test failed:",
     COMP_FAIL |-> "Unexpected compilation failure:",
     COMP_EXC |-> "Unexpected compilation exception:",
     INTER_EXC |-> "Unexpected interpreter exception:"]

print_no_meta(input_fpath) == [kind |-> "no_meta", path |-> input_fpath]

invalid_meta(input_fpath) == [kind |-> "invalid_meta", path |-> input_fpath]

\* print_error reads subj.expected and the registry entry subj.meta refers to
print_error(s, registry, error_name) ==
    [kind |-> "error", name |-> error_name, path |-> s.input_fpath,
     title |-> registry[s.meta]["title"], expected |-> s.expected,
     real |-> registry[s.meta]["real_output"]]

print_passed == [kind |-> "."]

\* Tester.handle_exc: an empty line, then what print_fn prints
handle_exc(out, block) == out \o <<[kind |-> "blank"], block>>

\* the except clauses of Tester.test_imp: the error name printed and the
\* counter incremented for an exception raised by subj.test; an exception
\* no clause matches leaves test_imp
test_imp_except(raised) ==
    CASE raised = "CompilationFailed" ->
            [caught |-> TRUE, name |-> errors.COMP_FAIL,
             counter |-> "compilation_failed"]
      [] raised = "CompilationException" ->
            [caught |-> TRUE, name |-> errors.COMP_EXC,
             counter |-> "compilation_failed"]
      [] raised = "RuntimeError" ->
            [caught |-> TRUE, name |-> errors.INTER_EXC,
             counter |-> "exceptions"]
      [] OTHER -> [caught |-> FALSE]

(***************************************************************************)
(* The run                                                                 *)
(***************************************************************************)
NoSubject == [input_fpath |-> <<>>, meta |-> <<>>]

\* TestSubject(input_fpath=..., meta=...): meta is the registry entry
\* itself (the same dict object), held here as its key
TestSubject(input_fpath) ==
    [input_fpath |-> input_fpath, meta |-> meta_key(input_fpath)]

\* a plausible slip: the value of an earlier scenario is kept when the
\* entry already holds one (dict.setdefault)
SetRealOutput_keeps_first(registry, s, value) ==
    IF "real_output" \in DOMAIN registry[s.meta] THEN registry
    ELSE [registry EXCEPT ![s.meta] = DictSet(@, "real_output", value)]

\* self.meta['real_output'] = value
SetRealOutput(registry, s, value) ==
    [registry EXCEPT ![s.meta] = DictSet(@, "real_output", value)]

\* a plausible slip: the lists are compared by their lengths only
test_result_by_length(registry, s) ==
    /\ registry[s.meta]["real_output"].type = "list"
    /\ Len(registry[s.meta]["real_output"].list) = Len(s.expected)

\* return self.meta['real_output'] == output_: list equality, read back
\* from the registry entry
test_result(registry, s) ==
    /\ registry[s.meta]["real_output"].type = "list"
    /\ registry[s.meta]["real_output"].list = s.expected

\* mkstemp creates a new, empty file; files are told apart by the order
\* of their creation
mkstemp == ntmp + 1

\* os.remove(path)
Remove(files, path) == [f \in DOMAIN files \ {path} |-> files[f]]

CurDir == walk[di]
CurPath == path_join(CurDir.dir, CurDir.fnames[fi])
CurMeta == tests_dct[subj.meta]

\* zip(inputs, outputs) stops at the end of the shorter list
NumScenarios(m) ==
    IF Len(m["input"]) <= Len(m["output"]) THEN Len(m["input"])
    ELSE Len(m["output"])

Init ==
    /\ walk \in Walks
    /\ tests_dct = tests_main
    /\ pc = "test_all"
    /\ di = 1
    /\ fi = 0
    /\ si = 0
    /\ subj = NoSubject
    /\ compiled = 0
    /\ fs = <<>>
    /\ ntmp = 0
    /\ summary = Summary
    /\ last_ok = FALSE
    /\ console = <<>>
    /\ invoked = <<>>
    /\ raw = <<>>
    /\ parsed = <<>>

\* test_all: a directory without files is passed over
TestAllSkip ==
    /\ pc = "test_all"
    /\ di <= Len(walk)
    /\ CurDir.fnames = <<>>
    /\ di' = di + 1
    /\ UNCHANGED <<walk, tests_dct, pc, fi, si, subj, compiled, fs, ntmp,
                   summary, last_ok, console, invoked, raw, parsed>>

\* test_all calls test_dir, which prints the directory's heading
TestDirEnter ==
    /\ pc = "test_all"
    /\ di <= Len(walk)
    /\ CurDir.fnames # <<>>
    /\ console' = Append(console, [kind |-> "dir", dir |-> CurDir.dir])
    /\ pc' = "test_dir"
    /\ fi' = 1
    /\ UNCHANGED <<walk, tests_dct, di, si, subj, compiled, fs, ntmp,
                   summary, last_ok, invoked, raw, parsed>>

\* a plausible slip: NoMetaError is not caught in test_dir and ends the run
LoadMetaMissing_uncaught ==
    /\ pc = "test_dir"
    /\ fi <= Len(CurDir.fnames)
    /\ meta_key(CurPath) \notin DOMAIN tests_dct
    /\ pc' = "aborted"
    /\ UNCHANGED <<walk, tests_dct, di, fi, si, subj, compiled, fs, ntmp,
                   summary, last_ok, console, invoked, raw, parsed>>

\* test_dir: load_meta raises NoMetaError
LoadMetaMissing ==
    /\ pc = "test_dir"
    /\ fi <= Len(CurDir.fnames)
    /\ meta_key(CurPath) \notin DOMAIN tests_dct
    /\ console' = handle_exc(console, print_no_meta(CurPath))
    /\ last_ok' = FALSE
    /\ fi' = fi + 1
    /\ UNCHANGED <<walk, tests_dct, pc, di, si, subj, compiled, fs, ntmp,
                   summary, invoked, raw, parsed>>

\* a plausible slip: test_imp reports the invalid metadata and, the
\* `return` missing, goes on to its loop
TestImpInvalid_no_return ==
    /\ pc = "test_dir"
    /\ fi <= Len(CurDir.fnames)
    /\ meta_key(CurPath) \in DOMAIN tests_dct
    /\ LET m == tests_dct[meta_key(CurPath)]
       IN  Len(m["input"]) # Len(m["output"])
    /\ subj' = TestSubject(CurPath)
    /\ console' = handle_exc(console, invalid_meta(CurPath))
    /\ last_ok' = FALSE
    /\ pc' = "test_imp"
    /\ si' = 1
    /\ UNCHANGED <<walk, tests_dct, di, fi, compiled, fs, ntmp,
                   summary, invoked, raw, parsed>>

\* test_dir: the metadata is found; test_imp finds its input and output
\* lists of different lengths and returns
TestImpInvalid ==
    /\ pc = "test_dir"
    /\ fi <= Len(CurDir.fnames)
    /\ meta_key(CurPath) \in DOMAIN tests_dct
    /\ LET m == tests_dct[meta_key(CurPath)]
       IN  Len(m["input"]) # Len(m["output"])
    /\ subj' = TestSubject(CurPath)
    /\ console' = handle_exc(console, invalid_meta(CurPath))
    /\ last_ok' = FALSE
    /\ fi' = fi + 1
    /\ UNCHANGED <<walk, tests_dct, pc, di, si, compiled, fs, ntmp,
                   summary, invoked, raw, parsed>>

\* test_dir: the metadata is found and well formed; test_imp starts its loop
TestImpEnter ==
    /\ pc = "test_dir"
    /\ fi <= Len(CurDir.fnames)
    /\ meta_key(CurPath) \in DOMAIN tests_dct
    /\ LET m == tests_dct[meta_key(CurPath)]
       IN  Len(m["input"]) = Len(m["output"])
    /\ subj' = TestSubject(CurPath)
    /\ pc' = "test_imp"
    /\ si' = 1
    /\ UNCHANGED <<walk, tests_dct, di, fi, compiled, fs, ntmp,
                   summary, last_ok, console, invoked, raw, parsed>>

\* One iteration of test_imp's loop, up to the end of the compile step:
\* subj.test sets self.expected, creates the temporary file and calls
\* _compile.  When _compile raises, the matching except clause of test_imp
\* records the outcome and the loop goes on to the next scenario.
ScenarioCompile(run) ==
    /\ pc = "test_imp"
    /\ si <= NumScenarios(CurMeta)
    /\ LET s1 == DictSet(subj, "expected", CurMeta["output"][si])
           f == mkstemp
           r == _compile(run)
           h == test_imp_except(r.raised)
       IN  /\ subj' = s1
           /\ ntmp' = ntmp + 1
           /\ compiled' = f
           /\ fs' = fs @@ (f :> IF r.wrote THEN run.stdout ELSE <<>>)
           /\ invoked' = Append(invoked,
                  [tool |-> "compiler", path |-> subj.input_fpath,
                   scenario |-> si, artifact |-> f, started |-> run.started,
                   exit |-> run.exit, stdout |-> run.stdout])
           /\ IF r.raised = "none"
              THEN /\ pc' = "interp"
                   /\ UNCHANGED <<tests_dct, si, summary, last_ok, console>>
              ELSE /\ tests_dct' = SetRealOutput(tests_dct, s1, r.real_output)
                   /\ console' = handle_exc(console,
                                            print_error(s1, tests_dct', h.name))
                   /\ last_ok' = FALSE
                   /\ summary' = Incr(summary, h.counter)
                   /\ si' = si + 1
                   /\ pc' = "test_imp"
    /\ UNCHANGED <<walk, di, fi, raw, parsed>>

\* The rest of the iteration: subj.test runs the interpreter on the
\* artifact, parses its output, removes the artifact and compares; test_imp
\* records the outcome.  An exception no except clause of test_imp matches
\* leaves test_imp, test_dir and test_all and ends the process.
ScenarioInterp(run) ==
    /\ pc = "interp"
    /\ invoked' = Append(invoked,
           [tool |-> "interpreter", path |-> subj.input_fpath,
            scenario |-> si, artifact |-> compiled,
            program |-> fs[compiled],
            stdin |-> load_input(CurMeta["input"][si]),
            started |-> run.started, exit |-> run.exit,
            stdout |-> run.stdout])
    /\ IF check_output(run) # "none"
       THEN LET h == test_imp_except("RuntimeError")
            IN  /\ tests_dct' = SetRealOutput(tests_dct, subj,
                                              Exc(check_output(run)))
                /\ console' = handle_exc(console,
                                         print_error(subj, tests_dct', h.name))
                /\ last_ok' = FALSE
                /\ summary' = Incr(summary, h.counter)
                /\ si' = si + 1
                /\ pc' = "test_imp"
                /\ UNCHANGED fs
       ELSE IF ~Decodable(run.stdout)
       THEN /\ ~test_imp_except("UnicodeDecodeError").caught
            /\ pc' = "aborted"
            /\ UNCHANGED <<tests_dct, console, last_ok, summary, si, fs>>
       ELSE LET real == parse_output(Decode(run.stdout))
            IN  /\ tests_dct' = SetRealOutput(tests_dct, subj, PyList(real))
                /\ fs' = Remove(fs, compiled)
                /\ IF test_result(tests_dct', subj)
                   THEN /\ console' = Append(console, print_passed)
                        /\ summary' = Incr(summary, "passed")
                        /\ last_ok' = TRUE
                   ELSE /\ summary' = Incr(summary, "failed")
                        /\ console' = handle_exc(console,
                               print_error(subj, tests_dct', errors.FAIL))
                        /\ last_ok' = FALSE
                /\ si' = si + 1
                /\ pc' = "test_imp"
    /\ UNCHANGED <<walk, di, fi, subj, compiled, ntmp, raw, parsed>>

\* test_imp's loop is over: test_dir goes on to the next file
TestImpReturn ==
    /\ pc = "test_imp"
    /\ si > NumScenarios(CurMeta)
    /\ pc' = "test_dir"
    /\ fi' = fi + 1
    /\ UNCHANGED <<walk, tests_dct, di, si, subj, compiled, fs, ntmp,
                   summary, last_ok, console, invoked, raw, parsed>>

\* test_dir's loop is over: test_all goes on to the next directory
TestDirReturn ==
    /\ pc = "test_dir"
    /\ fi > Len(CurDir.fnames)
    /\ pc' = "test_all"
    /\ di' = di + 1
    /\ UNCHANGED <<walk, tests_dct, fi, si, subj, compiled, fs, ntmp,
                   summary, last_ok, console, invoked, raw, parsed>>

\* the walk is over: print("\n", summary)
PrintSummary ==
    /\ pc = "test_all"
    /\ di > Len(walk)
    /\ console' = Append(console,
                         [kind |-> "summary", lines |-> SummaryStr(summary)])
    /\ pc' = "done"
    /\ UNCHANGED <<walk, tests_dct, di, fi, si, subj, compiled, fs, ntmp,
                   summary, last_ok, invoked, raw, parsed>>

Next ==
    \/ TestAllSkip
    \/ TestDirEnter
    \/ LoadMetaMissing
    \/ TestImpInvalid
    \/ TestImpEnter
    \/ \E run \in CompilerRuns : ScenarioCompile(run)
    \/ /\ pc = "interp"
       /\ \E run \in InterpreterRuns(subj.expected) : ScenarioInterp(run)
    \/ TestImpReturn
    \/ TestDirReturn
    \/ PrintSummary

Spec == Init /\ [][Next]_vars

\* the main flow of control is the only one: it takes its next step
\* whenever it has one (every external process is assumed to terminate)
FairSpec == Spec /\ WF_vars(Next)

(***************************************************************************)
(* parse_output on its own: a raw text is drawn, then parsed.              *)
(***************************************************************************)
Alphabet == {"1", GT, " ", NL}

\* the texts of the documentation's examples
FourLines == <<"a",NL,"b"," ",GT," ","1"," ",NL,"c",NL,"d"," ",GT," ","2">>
ExampleTexts == {TwoDelimiters, FourLines}

RawTexts == UNION {[1..n -> Alphabet] : n \in 0..MaxLen} \cup ExampleTexts

NotParsed == << <<"not parsed">> >>

InitParse ==
    /\ walk = <<>>
    /\ tests_dct = tests_main
    /\ pc = "parse"
    /\ di = 1
    /\ fi = 0
    /\ si = 0
    /\ subj = NoSubject
    /\ compiled = 0
    /\ fs = <<>>
    /\ ntmp = 0
    /\ summary = Summary
    /\ last_ok = FALSE
    /\ console = <<>>
    /\ invoked = <<>>
    /\ raw \in RawTexts
    /\ parsed = NotParsed

ParseOutput ==
    /\ pc = "parse"
    /\ parsed' = parse_output(raw)
    /\ pc' = "parsed"
    /\ UNCHANGED <<walk, tests_dct, di, fi, si, subj, compiled, fs, ntmp,
                   summary, last_ok, console, invoked, raw>>

NextParse == ParseOutput

SpecParse == InitParse /\ [][NextParse]_vars

(***************************************************************************)
(* Summary.__str__ on its own: a Summary with any counter values is        *)
(* printed.                                                                *)
(***************************************************************************)
InitRender ==
    /\ walk = <<>>
    /\ tests_dct = tests_main
    /\ pc = "render"
    /\ di = 1
    /\ fi = 0
    /\ si = 0
    /\ subj = NoSubject
    /\ compiled = 0
    /\ fs = <<>>
    /\ ntmp = 0
    /\ summary \in [DOMAIN Summary -> 0..MaxCount]
    /\ last_ok = FALSE
    /\ console = <<>>
    /\ invoked = <<>>
    /\ raw = <<>>
    /\ parsed = <<>>

\* print("\n", summary)
Render ==
    /\ pc = "render"
    /\ console' = Append(console,
                         [kind |-> "summary", lines |-> SummaryStr(summary)])
    /\ pc' = "rendered"
    /\ UNCHANGED <<walk, tests_dct, di, fi, si, subj, compiled, fs, ntmp,
                   summary, last_ok, invoked, raw, parsed>>

NextRender == Render

SpecRender == InitRender /\ [][NextRender]_vars

(***************************************************************************)
(* What the properties below read off the state.                           *)
(***************************************************************************)
\* the compiler invocations, one per scenario started, in order
Compiles == SelectSeq(invoked, LAMBDA c : c.tool = "compiler")
\* the interpreter invocations, in order
Interprets == SelectSeq(invoked, LAMBDA c : c.tool = "interpreter")
\* the outcomes reported, one per scenario ended, in order: "." or a
\* failure block
Outcomes == SelectSeq(console, LAMBDA e : e.kind \in {".", "error"})
\* the metadata warnings printed
MetaWarnings ==
    SelectSeq(console, LAMBDA e : e.kind \in {"no_meta", "invalid_meta"})
\* the counters an outcome of a scenario is counted in
ScenarioCounters == {"passed", "failed", "compilation_failed", "exceptions"}

Min(S) == CHOOSE x \in S : \A y \in S : x <= y
Max(S) == CHOOSE x \in S : \A y \in S : x >= y

\* s without its leading and trailing whitespace
Trimmed(s) ==
    LET inked == {i \in DOMAIN s : s[i] \notin Whitespace}
    IN  IF inked = {} THEN <<>> ELSE SubSeq(s, Min(inked), Max(inked))

(***************************************************************************)
(* C1.  Every scenario that reached the interpreter invocation and whose   *)
(* outcome has been recorded (passed, failed or execution error) has left  *)
(* no temporary artifact on disk.                                          *)
(***************************************************************************)
C1_ArtifactRemovedInEveryBranch ==
    pc # "aborted" =>
        \A i \in DOMAIN Interprets : Interprets[i].artifact \notin DOMAIN fs

(***************************************************************************)
(* C2.  Whatever the toolchain does, no exception leaves test_imp and the  *)
(* run ends with the summary printed.                                      *)
(***************************************************************************)
C2_RunAlwaysPrintsSummary ==
    /\ [](pc # "aborted")
    /\ <>(pc = "done" /\ console[Len(console)].kind = "summary")

(***************************************************************************)
(* C3.  The i-th compiler invocation and the i-th outcome belong to the    *)
(* same scenario.                                                          *)
(***************************************************************************)
\* the outcome of the scenario of the i-th compile is "Unexpected
\* compilation failure:" and nothing was written to its artifact file
IsCompilationFailed(i) ==
    /\ i <= Len(Outcomes)
    /\ Outcomes[i].kind = "error"
    /\ Outcomes[i].name = "Unexpected compilation failure:"
    /\ Compiles[i].artifact \in DOMAIN fs => fs[Compiles[i].artifact] = <<>>

\* C3 as claimed: whenever the compiler's output contains "Syntax error",
\* whatever its exit status, the outcome is CompilationFailed and no
\* compiled artifact is written.
C3_SyntaxErrorAnyExitStatus ==
    \A i \in DOMAIN Compiles :
        (Compiles[i].started /\ Contains(Compiles[i].stdout, SyntaxErrorMarker))
            => IsCompilationFailed(i)

\* C3 as amended: whenever the compiler exits with status 0 and its output,
\* decoded as UTF-8, contains "Syntax error", the outcome is
\* CompilationFailed and the compiler's output is not written to the
\* artifact file.
C3_SyntaxErrorExitZero ==
    \A i \in DOMAIN Compiles :
        (/\ Compiles[i].started
         /\ Compiles[i].exit = 0
         /\ Decodable(Compiles[i].stdout)
         /\ Contains(Compiles[i].stdout, SyntaxErrorMarker))
            => IsCompilationFailed(i)

C3_Witness ==
    \E i \in DOMAIN Compiles :
        /\ Compiles[i].started
        /\ Compiles[i].exit = 0
        /\ Compiles[i].stdout = SyntaxErrorBytes
        /\ IsCompilationFailed(i)
        /\ Compiles[i].artifact \in DOMAIN fs

(***************************************************************************)
(* C4.  The token a line with '>' contributes.                             *)
(***************************************************************************)
\* the lines of raw that hold a '>'
DelimitedLines ==
    SelectSeq(Split(raw, NL), LAMBDA line : GT \in Range(line))
\* everything after the first '>' of line
AfterFirst(line) == SubSeq(line, IndexOf(line, GT) + 1, Len(line))
\* what is between the first '>' of line and its second '>', or the end of
\* the line when there is no second
UpToSecond(line) ==
    LET rest == AfterFirst(line)
    IN  IF IndexOf(rest, GT) = 0 THEN rest
        ELSE SubSeq(rest, 1, IndexOf(rest, GT) - 1)

\* C4 as claimed: each line with a '>' yields the trimmed text of
\* everything after its first '>', later '>' included.
C4_TokenIsAllAfterFirst ==
    pc = "parsed" =>
        /\ Len(parsed) = Len(DelimitedLines)
        /\ \A i \in DOMAIN parsed :
              parsed[i] = Trimmed(AfterFirst(DelimitedLines[i]))

\* C4 as amended: each line with a '>' yields the trimmed text between its
\* first '>' and its second '>' (or the end of the line).
C4_TokenIsUpToSecond ==
    pc = "parsed" =>
        /\ Len(parsed) = Len(DelimitedLines)
        /\ \A i \in DOMAIN parsed :
              parsed[i] = Trimmed(UpToSecond(DelimitedLines[i]))

C4_Witness ==
    /\ pc = "parsed"
    /\ raw = TwoDelimiters
    /\ parsed = << <<"1">> >>

(***************************************************************************)
(* C5.  Every registry entry has exactly the keys and values it had at     *)
(* process start.                                                          *)
(***************************************************************************)
C5_RegistryNeverMutated ==
    /\ DOMAIN tests_dct = DOMAIN tests_main
    /\ \A k \in DOMAIN tests_main :
          /\ DOMAIN tests_dct[k] = DOMAIN tests_main[k]
          /\ \A f \in DOMAIN tests_main[k] : tests_dct[k][f] = tests_main[k][f]

(***************************************************************************)
(* C6.  Every scenario test_imp executes increments exactly one of         *)
(* passed, failed, compilation_failed, exceptions by one and changes no    *)
(* other counter; no counter ever decreases.                               *)
(***************************************************************************)
\* a step in which the execution of a scenario ends
ScenarioEnds ==
    \/ pc = "test_imp" /\ Len(invoked') > Len(invoked) /\ pc' # "interp"
    \/ pc = "interp" /\ pc' # "interp"

\* C6: each step that ends a scenario adds one to exactly one of the four
\* scenario counters, and no step lowers a counter
C6_OneCounterPerScenario ==
    [][/\ ScenarioEnds =>
              \E c \in ScenarioCounters : summary' = Incr(summary, c)
       /\ \A c \in DOMAIN summary : summary'[c] >= summary[c]]_vars

(***************************************************************************)
(* C7.  no_meta counts the files reported as having no metadata or         *)
(* invalid metadata.                                                       *)
(***************************************************************************)
C7_NoMetaCountsWarnings == summary.no_meta = Len(MetaWarnings)

(***************************************************************************)
(* C8 and C9 speak of the files of the corpus by their place in the walk.  *)
(***************************************************************************)
Places ==
    {p \in (DOMAIN walk) \X (1..MaxFiles) : p[2] <= Len(walk[p[1]].fnames)}
PathAt(p) == path_join(walk[p[1]].dir, walk[p[1]].fnames[p[2]])
\* test_dir is through with the file at place p
Done(p) ==
    \/ p[1] < di
    \/ p[1] = di /\ pc \notin {"test_all", "done"} /\ p[2] < fi
\* the file has no registry entry
Missing(path) == meta_key(path) \notin DOMAIN tests_dct
\* the file's registry entry has input and output lists of different lengths
Malformed(path) ==
    /\ ~Missing(path)
    /\ Len(tests_dct[meta_key(path)]["input"])
           # Len(tests_dct[meta_key(path)]["output"])
\* how many times block was printed
Printed(block) == Len(SelectSeq(console, LAMBDA e : e = block))
\* test_dir is at a file
AtFile == pc = "test_dir" /\ fi <= Len(CurDir.fnames)
\* a step that leaves alone the subprocess log and the scenario counters
NothingRun ==
    /\ invoked' = invoked
    /\ \A c \in ScenarioCounters : summary'[c] = summary[c]

(***************************************************************************)
(* C8.  A test case whose input and output lists differ in length is       *)
(* reported as invalid exactly once, neither compiler nor interpreter is   *)
(* ever invoked for it, and handling it changes none of passed, failed,    *)
(* compilation_failed, exceptions.                                         *)
(***************************************************************************)
C8_MalformedMetadata ==
    /\ [](/\ \A p \in Places :
                Malformed(PathAt(p)) =>
                    Printed(invalid_meta(PathAt(p))) = IF Done(p) THEN 1 ELSE 0
          /\ \A i \in DOMAIN invoked : ~Malformed(invoked[i].path))
    /\ [][(AtFile /\ Malformed(CurPath)) => NothingRun]_vars

C8_Witness ==
    /\ pc = "done"
    /\ \E p \in Places : Printed(invalid_meta(PathAt(p))) = 1
    /\ summary.passed = 1

(***************************************************************************)
(* C9.  A file without a registry entry gets one missing-metadata          *)
(* warning, no compile or execute step is run for it, and test_dir goes on *)
(* with the next file: the run is not aborted, and no file the walk has    *)
(* passed was left out.                                                    *)
(***************************************************************************)
\* the file at place p was dealt with: warned about, or its scenarios begun
Processed(p) ==
    IF Missing(PathAt(p)) THEN Printed(print_no_meta(PathAt(p))) = 1
    ELSE IF Malformed(PathAt(p)) THEN Printed(invalid_meta(PathAt(p))) = 1
    ELSE \E i \in DOMAIN invoked : invoked[i].path = PathAt(p)

\* C9: one warning per file without metadata once test_dir is through
\* with it, no subprocess for it, and the step that handles it leaves
\* test_dir at the next file
C9_MissingMetadata ==
    /\ [](/\ \A p \in Places :
                /\ Missing(PathAt(p)) =>
                      Printed(print_no_meta(PathAt(p)))
                          = IF Done(p) THEN 1 ELSE 0
                /\ Done(p) => Processed(p)
          /\ \A i \in DOMAIN invoked : ~Missing(invoked[i].path))
    /\ [][(AtFile /\ Missing(CurPath)) =>
              /\ NothingRun
              /\ pc' = "test_dir"
              /\ di' = di
              /\ fi' = fi + 1]_vars

C9_Witness ==
    /\ pc = "done"
    /\ \E i, j \in DOMAIN console :
          /\ i < j
          /\ console[i].kind = "no_meta"
          /\ console[j].kind = "."

(***************************************************************************)
(* C10.  When test_imp is through with a well-formed test case of k        *)
(* scenarios, the compiler was invoked for its scenarios 1..k in that      *)
(* order, each into an artifact no other scenario uses, and every scenario *)
(* begun has its outcome.                                                  *)
(***************************************************************************)
C10_OneOutcomePerScenario ==
    (/\ pc \notin {"test_imp", "interp"}
     /\ subj.meta \in DOMAIN tests_dct
     /\ ~Malformed(subj.input_fpath)) =>
        LET mine == SelectSeq(Compiles,
                              LAMBDA c : c.path = subj.input_fpath)
        IN  /\ Len(mine) = NumScenarios(CurMeta)
            /\ \A i \in DOMAIN mine : mine[i].scenario = i
            /\ Len(Outcomes) = Len(Compiles)
            /\ \A i, j \in DOMAIN Compiles :
                  i # j => Compiles[i].artifact # Compiles[j].artifact

(***************************************************************************)
(* The scenario of the i-th compiler invocation, read off the registry as  *)
(* it was at process start and off what the two processes did.             *)
(***************************************************************************)
\* the expected token sequence of that scenario
ExpectedOf(i) ==
    tests_main[meta_key(Compiles[i].path)]["output"][Compiles[i].scenario]
\* the interpreter invocations on the artifact of that scenario
RunsOf(i) ==
    SelectSeq(Interprets, LAMBDA r : r.artifact = Compiles[i].artifact)
\* the compiler ran, exited with status 0 and printed decodable text
\* without the marker
CompileSucceeded(i) ==
    /\ Compiles[i].started
    /\ Compiles[i].exit = 0
    /\ BadByte \notin Range(Compiles[i].stdout)
    /\ ~Contains(Compiles[i].stdout, SyntaxErrorMarker)
\* the interpreter ran and exited with status 0
RunSucceeded(r) == r.started /\ r.exit = 0
\* the tokens of a raw text, line by line: what is between the first and
\* the second '>' of each line that holds one, trimmed
RECURSIVE TokensOf(_)
TokensOf(text) ==
    LET n == IndexOf(text, NL)
        line == IF n = 0 THEN text ELSE SubSeq(text, 1, n - 1)
        here == IF GT \in Range(line) THEN <<Trimmed(UpToSecond(line))>>
                ELSE <<>>
    IN  IF n = 0 THEN here
        ELSE here \o TokensOf(SubSeq(text, n + 1, Len(text)))
\* element-wise equality of two token sequences
SameTokens(a, b) ==
    /\ Len(a) = Len(b)
    /\ \A k \in 1..Len(a) : a[k] = b[k]
\* what is reported for an outcome: "." or the name of the failure
Reported(o) == IF o.kind = "." THEN "." ELSE o.name

(***************************************************************************)
(* C11.  The outcome of a scenario is a function of its own metadata and   *)
(* of what the compiler and the interpreter did in it: whatever scenarios  *)
(* ran before, with whatever outcomes, the same scenario with the same     *)
(* toolchain behaviour gets the same outcome.                              *)
(***************************************************************************)
\* the outcome the scenario's own inputs determine
OwnOutcome(i) ==
    IF ~Compiles[i].started \/ Compiles[i].exit # 0
           \/ BadByte \in Range(Compiles[i].stdout)
    THEN "Unexpected compilation exception:"
    ELSE IF Contains(Compiles[i].stdout, SyntaxErrorMarker)
    THEN "Unexpected compilation failure:"
    ELSE IF ~RunSucceeded(RunsOf(i)[1])
    THEN "Unexpected interpreter exception:"
    ELSE IF SameTokens(TokensOf(RunsOf(i)[1].stdout), ExpectedOf(i))
    THEN "."
    ELSE "Test failed:"

\* C11: every outcome recorded is the one its scenario's own inputs
\* determine, independently of the scenarios before it
C11_OutcomeIndependentOfHistory ==
    \A i \in DOMAIN Outcomes : Reported(Outcomes[i]) = OwnOutcome(i)

\* a scenario passes after an earlier scenario of the same file failed on
\* an output mismatch and left its real output in the registry entry
C11_Witness ==
    \E i, j \in DOMAIN Outcomes :
        /\ i < j
        /\ Compiles[i].path = Compiles[j].path
        /\ Reported(Outcomes[i]) = "Test failed:"
        /\ Reported(Outcomes[j]) = "."

(***************************************************************************)
(* C12.  When compile and execution both succeed, the scenario passes if   *)
(* and only if the parsed tokens equal the expected tokens in length and   *)
(* in every position; otherwise it is "Test failed:".  With expected       *)
(* [["10"]] and the output "> 10" it passes.                               *)
(***************************************************************************)
C12_PassedIffTokensEqual ==
    \A i \in DOMAIN Outcomes :
        (CompileSucceeded(i) /\ RunSucceeded(RunsOf(i)[1])) =>
            LET tokens == TokensOf(RunsOf(i)[1].stdout)
            IN  /\ SameTokens(tokens, ExpectedOf(i))
                       => Outcomes[i].kind = "."
                /\ ~SameTokens(tokens, ExpectedOf(i))
                       => /\ Outcomes[i].kind = "error"
                          /\ Outcomes[i].name = "Test failed:"
                          /\ Outcomes[i].expected = ExpectedOf(i)
                          /\ Outcomes[i].real.list = tokens
                /\ (/\ ExpectedOf(i) = << <<"1", "0">> >>
                    /\ RunsOf(i)[1].stdout = <<GT, " ", "1", "0">>)
                       => Outcomes[i].kind = "."

C12_Witness ==
    \E i \in DOMAIN Outcomes :
        /\ Compiles[i].path = <<".", "in", "basic", "read_put.imp">>
        /\ CompileSucceeded(i)
        /\ RunsOf(i)[1].stdout = <<GT, " ", "1", "0">>
        /\ RunsOf(i)[1].exit = 0
        /\ Outcomes[i].kind = "."
        /\ summary.passed = 1

(***************************************************************************)
(* C13.  The lines of raw, by their number.                                *)
(***************************************************************************)
\* the number of the line the i-th character of raw is on
LineNo(i) == 1 + Cardinality({j \in 1..(i - 1) : raw[j] = NL})
\* the numbers of the lines of raw that hold a '>'
GTLines == {LineNo(i) : i \in {j \in DOMAIN raw : raw[j] = GT}}
\* the k-th of them, from the top
KthGTLine(k) ==
    CHOOSE n \in GTLines : Cardinality({m \in GTLines : m < n}) = k - 1
\* the text of line n (one that is not empty)
LineText(n) ==
    LET at == {i \in DOMAIN raw : LineNo(i) = n /\ raw[i] # NL}
    IN  SubSeq(raw, Min(at), Max(at))

\* C13: parse_output yields as many tokens as raw has lines with a '>',
\* the k-th token coming from the k-th such line; lines without '>' yield
\* nothing; "a\nb > 1 \nc\nd > 2" yields ["1", "2"].
C13_OneTokenPerDelimitedLineInOrder ==
    pc = "parsed" =>
        /\ Len(parsed) = Cardinality(GTLines)
        /\ \A k \in 1..Cardinality(GTLines) :
              parsed[k] = Trimmed(UpToSecond(LineText(KthGTLine(k))))
        /\ raw = FourLines => parsed = << <<"1">>, <<"2">> >>

C13_Witness ==
    /\ pc = "parsed"
    /\ raw = FourLines
    /\ parsed = << <<"1">>, <<"2">> >>

(***************************************************************************)
(* C14.  The rendered summary lists exactly the counters among passed,     *)
(* failed, compilation_failed, exceptions that are greater than zero, in   *)
(* that order, each with its value, and never lists no_meta.               *)
(***************************************************************************)
\* the counters Summary.__str__ may list, in their order, with their labels
Listed ==
    <<[counter |-> "passed", label |-> "Passed: "],
      [counter |-> "failed", label |-> "Failed: "],
      [counter |-> "compilation_failed", label |-> "Compilation failed: "],
      [counter |-> "exceptions", label |-> "Exceptions thrown: "]>>
\* the lines of the summary printed last
SummaryLines == console[Len(console)].lines

C14_SummaryListsNonZeroCounters ==
    pc \in {"rendered", "done"} =>
        /\ \A k \in DOMAIN Listed :
              Cardinality({i \in DOMAIN SummaryLines :
                              SummaryLines[i].label = Listed[k].label})
                  = IF summary[Listed[k].counter] > 0 THEN 1 ELSE 0
        /\ \A i \in DOMAIN SummaryLines :
              \E k \in DOMAIN Listed :
                  /\ SummaryLines[i].label = Listed[k].label
                  /\ SummaryLines[i].n = summary[Listed[k].counter]
        /\ \A i, j \in DOMAIN SummaryLines :
              i < j => \E k, l \in DOMAIN Listed :
                          /\ k < l
                          /\ SummaryLines[i].label = Listed[k].label
                          /\ SummaryLines[j].label = Listed[l].label

C14_Witness ==
    /\ pc = "rendered"
    /\ summary.passed = 2
    /\ summary.failed = 0
    /\ summary.compilation_failed = 0
    /\ summary.exceptions = 1
    /\ summary.no_meta = 1
    /\ SummaryLines = <<[label |-> "Passed: ", n |-> 2],
                        [label |-> "Exceptions thrown: ", n |-> 1]>>

(***************************************************************************)
(* C15.  At every point of a run the only temporary artifact on disk is    *)
(* the one of the scenario in flight: every scenario's artifact is gone    *)
(* before the next one is created.                                         *)
(***************************************************************************)
C15_AtMostTheArtifactInFlight ==
    DOMAIN fs \subseteq (IF pc = "interp" THEN {compiled} ELSE {})

(***************************************************************************)
(* C16.  When the compile succeeded and the interpreter cannot be started  *)
(* or exits with a non-zero status, the scenario ends as "Unexpected       *)
(* interpreter exception:": exceptions goes up by one, no other counter    *)
(* changes, and the real output is the exception, not a parsed list.       *)
(***************************************************************************)
\* a step in which the interpreter is invoked and fails
InterpreterFails ==
    /\ pc = "interp"
    /\ Len(invoked') = Len(invoked) + 1
    /\ ~RunSucceeded(invoked'[Len(invoked')])

\* C16: every failing interpreter invocation is recorded as an execution
\* error and nothing else
C16_ExecutionError ==
    [][InterpreterFails =>
          /\ summary' = Incr(summary, "exceptions")
          /\ Len(console') = Len(console) + 2
          /\ console'[Len(console')].kind = "error"
          /\ console'[Len(console')].name = "Unexpected interpreter exception:"
          /\ console'[Len(console')].real.type = "exception"
          /\ tests_dct'[subj.meta]["real_output"].type = "exception"]_vars

C16_Witness ==
    /\ Len(Outcomes) = 1
    /\ Reported(Outcomes[1]) = "Unexpected interpreter exception:"
    /\ CompileSucceeded(1)
    /\ RunsOf(1)[1].started
    /\ RunsOf(1)[1].exit = 1
    /\ summary = Incr(Summary, "exceptions")

(***************************************************************************)
(* C17.  When the compiler cannot be started, exits with a non-zero        *)
(* status or prints what cannot be decoded, the scenario ends as           *)
(* "Unexpected compilation exception:", a label other than the one of a    *)
(* syntax failure; compilation_failed counts the outcomes of both labels.  *)
(***************************************************************************)
C17_CompilationError ==
    /\ \A i \in DOMAIN Outcomes :
          (\/ ~Compiles[i].started
           \/ Compiles[i].exit # 0
           \/ BadByte \in Range(Compiles[i].stdout))
              => /\ Outcomes[i].kind = "error"
                 /\ Outcomes[i].name = "Unexpected compilation exception:"
                 /\ Outcomes[i].name # errors.COMP_FAIL
                 /\ Outcomes[i].real.type = "exception"
    /\ summary.compilation_failed
           = Len(SelectSeq(Outcomes, LAMBDA o :
                    Reported(o) \in {"Unexpected compilation exception:",
                                     "Unexpected compilation failure:"}))

C17_Witness ==
    \E i, j \in DOMAIN Outcomes :
        /\ ~Compiles[i].started
        /\ Reported(Outcomes[i]) = "Unexpected compilation exception:"
        /\ BadByte \in Range(Compiles[j].stdout)
        /\ Reported(Outcomes[j]) = "Unexpected compilation exception:"
        /\ \E k \in DOMAIN Outcomes :
              Reported(Outcomes[k]) = "Unexpected compilation failure:"
        /\ summary.compilation_failed = 3

(***************************************************************************)
(* C18.  The interpreter is invoked only right after the compile of the    *)
(* same scenario succeeded, on an artifact holding exactly the bytes the   *)
(* compiler printed; after a compile that failed it is never invoked for   *)
(* that scenario.                                                          *)
(***************************************************************************)
C18_InterpreterAfterSuccessfulCompile ==
    /\ \A j \in DOMAIN invoked :
          invoked[j].tool = "interpreter" =>
              /\ j > 1
              /\ invoked[j - 1].tool = "compiler"
              /\ invoked[j - 1].path = invoked[j].path
              /\ invoked[j - 1].scenario = invoked[j].scenario
              /\ invoked[j - 1].artifact = invoked[j].artifact
              /\ invoked[j - 1].started
              /\ invoked[j - 1].exit = 0
              /\ ~Contains(invoked[j - 1].stdout, SyntaxErrorMarker)
              /\ BadByte \notin Range(invoked[j - 1].stdout)
              /\ invoked[j].program = invoked[j - 1].stdout
    /\ \A i \in DOMAIN Compiles :
          ~CompileSucceeded(i) => RunsOf(i) = <<>>
    /\ pc = "interp" => fs[compiled] = invoked[Len(invoked)].stdout

C18_Witness ==
    /\ \E j \in DOMAIN invoked :
          /\ invoked[j].tool = "interpreter"
          /\ invoked[j].program = CodeBytes
          /\ invoked[j].scenario = 2
    /\ \E i \in DOMAIN Outcomes : ~CompileSucceeded(i) /\ RunsOf(i) = <<>>

(***************************************************************************)
(* C19.  Every failure block shows the expected output of its own          *)
(* scenario and the real output set in that scenario: the parsed output,   *)
(* the string "Compilation failed" or the exception raised in it.          *)
(***************************************************************************)
\* the exception a process that failed makes check_output raise
Raised(r) == IF r.started THEN "CalledProcessError" ELSE "OSError"
\* the real output the scenario of the i-th compile sets
OwnRealOutput(i) ==
    IF ~(Compiles[i].started /\ Compiles[i].exit = 0)
    THEN [type |-> "exception", text |-> Raised(Compiles[i]), list |-> <<>>]
    ELSE IF BadByte \in Range(Compiles[i].stdout)
    THEN [type |-> "exception", text |-> "UnicodeDecodeError", list |-> <<>>]
    ELSE IF Contains(Compiles[i].stdout, SyntaxErrorMarker)
    THEN [type |-> "str", text |-> "Compilation failed", list |-> <<>>]
    ELSE IF ~RunSucceeded(RunsOf(i)[1])
    THEN [type |-> "exception", text |-> Raised(RunsOf(i)[1]), list |-> <<>>]
    ELSE [type |-> "list", text |-> "",
          list |-> TokensOf(RunsOf(i)[1].stdout)]

\* C19: the expected and the real output of every failure block are those
\* of the scenario the block is printed for
C19_FailureBlockShowsOwnScenario ==
    \A i \in DOMAIN Outcomes :
        Outcomes[i].kind = "error" =>
            /\ Outcomes[i].path = Compiles[i].path
            /\ Outcomes[i].title = tests_main[meta_key(Compiles[i].path)]["title"]
            /\ Outcomes[i].expected = ExpectedOf(i)
            /\ Outcomes[i].real = OwnRealOutput(i)

\* two failure blocks of one file that differ in expected and real output
C19_Witness ==
    \E i, j \in DOMAIN Outcomes :
        /\ i < j
        /\ Outcomes[i].kind = "error"
        /\ Outcomes[j].kind = "error"
        /\ Outcomes[i].path = Outcomes[j].path
        /\ Outcomes[i].expected # Outcomes[j].expected
        /\ Outcomes[i].real.type = "list"
        /\ Outcomes[j].real.type = "exception"

====
